---- MODULE Spec2Model ----
(***************************************************************************)
(* The verified computation pipeline of DeepThought: the LangGraph state   *)
(* graph Orchestrator -> Execution -> Verification -> Response with its    *)
(* conditional edges, and the tools the nodes call.                        *)
(*                                                                         *)
(* Python values are modelled as records of one shape, [tag, n, d]:        *)
(*   None                  tag "none"                                      *)
(*   a number n/d          tag "num", the fraction in lowest terms, d > 0  *)
(*   the divide error text tag "str"                                       *)
(*   any other text        tag "text"                                      *)
(*   a call that raised    tag "raise" (no value: the exception)           *)
(* so that 4 / 2 == 2 holds as it does for Python's int and float.         *)
(***************************************************************************)
EXTENDS Integers, Sequences, FiniteSets, TLC

\* ---------------------------------------------------------------- bounds
MaxVal == 1            \* operands stored in a lookup record are 0..MaxVal
MaxLLMSteps == 2       \* steps in a plan returned by the text generator
MaxRetryInit == 3      \* retry_count of a caller-built context (SpecCtx)
MaxCount == 4          \* the two edge counters saturate here

\* ---------------------------------------------------------------- values
None == [tag |-> "none", n |-> 0, d |-> 1]
ErrStr == [tag |-> "str", n |-> 0, d |-> 1]
Text == [tag |-> "text", n |-> 0, d |-> 1]
Raised == [tag |-> "raise", n |-> 0, d |-> 1]

IsNumber(v) == v.tag = "num"

Abs(x) == IF x < 0 THEN -x ELSE x

RECURSIVE GCD(_, _)
GCD(a, b) == IF b = 0 THEN a ELSE GCD(b, a % b)

\* the fraction n/d in lowest terms, with a positive denominator
Lowest(n, d) ==
    LET g == GCD(Abs(n), Abs(d))
        s == IF d < 0 THEN -1 ELSE 1
    IN  [tag |-> "num", n |-> (s * n) \div g, d |-> (s * d) \div g]

\* the number n/d; numerator and denominator are evaluated once
Rat(n, d) == CHOOSE r \in { Lowest(x, y) : x \in {n}, y \in {d} } : TRUE

Num(n) == Rat(n, 1)

\* a <= b for two numbers (a.n * b.d <= b.n * a.d, without the large product)
RatLeq(a, b) == a.n <= (b.n * a.d) \div b.d

RatAbs(a) == Rat(Abs(a.n), a.d)

\* ------------------------------------------------------------ math tools
add_values(val1, val2) == Rat(val1.n * val2.d + val2.n * val1.d, val1.d * val2.d)

\* the subtraction as a bug would have it: val2 - val1
subtract_values_reversed(val1, val2) ==
    Rat(val2.n * val1.d - val1.n * val2.d, val1.d * val2.d)

subtract_values(val1, val2) == Rat(val1.n * val2.d - val2.n * val1.d, val1.d * val2.d)

multiply_values(val1, val2) == Rat(val1.n * val2.n, val1.d * val2.d)

divide_values(val1, val2) ==
    IF val2.n = 0 THEN ErrStr ELSE Rat(val1.n * val2.d, val1.d * val2.n)

\* ------------------------------------------------------ tool dispatching
Absent == "<absent>"
Ops == {"add", "subtract", "multiply", "divide"}
Functions == {"add_values", "subtract_values", "multiply_values", "divide_values"}

\* OPERATION_TO_FUNCTION.get(operation, "add_values")
\* the table as a bug would have it: an unknown operation gets a function
\* name of its own
OPERATION_TO_FUNCTION_verbatim(operation) ==
    CASE operation = "add" -> "add_values"
      [] operation = "subtract" -> "subtract_values"
      [] operation = "multiply" -> "multiply_values"
      [] operation = "divide" -> "divide_values"
      [] OTHER -> operation \o "_values"

OPERATION_TO_FUNCTION(operation) ==
    CASE operation = "add" -> "add_values"
      [] operation = "subtract" -> "subtract_values"
      [] operation = "multiply" -> "multiply_values"
      [] operation = "divide" -> "divide_values"
      [] OTHER -> "add_values"

\* OPERATION_TO_TOOL.get(name): the tool's own name, Absent for no entry
OPERATION_TO_TOOL(name) ==
    CASE name \in {"add", "add_values"} -> "add_values"
      [] name \in {"subtract", "subtract_values"} -> "subtract_values"
      [] name \in {"multiply", "multiply_values"} -> "multiply_values"
      [] name \in {"divide", "divide_values"} -> "divide_values"
      [] OTHER -> Absent

\* tool.invoke({"val1": val1, "val2": val2}): the arguments are validated
\* against the tool's args_schema (numbers), which raises on anything else
Invoke(tool, val1, val2) ==
    IF ~IsNumber(val1) \/ ~IsNumber(val2) THEN Raised
    ELSE CASE tool = "add_values" -> add_values(val1, val2)
           [] tool = "subtract_values" -> subtract_values(val1, val2)
           [] tool = "multiply_values" -> multiply_values(val1, val2)
           [] OTHER -> divide_values(val1, val2)

\* ------------------------------------------------------------------ plans
\* The "pk"/"sk" of a step's parameters: the partition and sort key of the
\* request, or some other pair of keys (Absent: the parameters hold none).
RequestKeys == "request"
OtherKeys == "other"

\* A PlanStep keeps what the nodes read: step_number, step_type and, of the
\* parameters map, "operation", "function" and "pk"/"sk" (keys).
PlanStep(number, type, operation, function, keys) ==
    [step_number |-> number, step_type |-> type, operation |-> operation,
     function |-> function, keys |-> keys]

NoPlan == [present |-> FALSE, steps |-> << >>]

Plan(steps) == [present |-> TRUE, steps |-> steps]

\* ACTION_TO_STEP_TYPE.get(action, PlanStepType.EXECUTE_FUNCTION)
ACTION_TO_STEP_TYPE(action) ==
    CASE action = "query_database" -> "query_database"
      [] action = "execute_operation" -> "execute_function"
      [] action = "verify_result" -> "verify_result"
      [] action = "format_response" -> "format_response"
      [] OTHER -> "execute_function"

\* step_data holds no "step_number"
NoStepNumber == 0

\* The steps a text-generator plan is drawn from: action and parameters,
\* with no "step_number".
LLMStep(action, operation, function, keys) ==
    [action |-> action, operation |-> operation, function |-> function,
     keys |-> keys, step_number |-> NoStepNumber]

LLMSteps ==
    { LLMStep("query_database", Absent, Absent, RequestKeys),
      LLMStep("query_database", Absent, Absent, Absent),
      LLMStep("query_database", "divide", Absent, OtherKeys),
      LLMStep("execute_operation", Absent, Absent, Absent),
      LLMStep("compute", Absent, "multiply_values", Absent),
      LLMStep("compute", "mod", "mod_values", Absent),
      LLMStep("verify_result", "multiply", Absent, Absent),
      \* a step that states its own "step_number": 1
      [LLMStep("execute_operation", Absent, Absent, Absent)
          EXCEPT !.step_number = 1] }

\* Two plans of three steps, which the parser accepts like any other list of
\* steps: a second lookup after the arithmetic, and a second lookup before it.
SecondLookupPlan ==
    << LLMStep("query_database", Absent, Absent, RequestKeys),
       LLMStep("execute_operation", Absent, Absent, Absent),
       LLMStep("query_database", Absent, Absent, OtherKeys) >>

RepeatedLookupPlan ==
    << LLMStep("query_database", Absent, Absent, RequestKeys),
       LLMStep("query_database", Absent, Absent, OtherKeys),
       LLMStep("execute_operation", Absent, Absent, Absent) >>

LongResponses ==
    { [kind |-> "json", operation |-> Absent, steps |-> ss] :
        ss \in {SecondLookupPlan, RepeatedLookupPlan} }

LLMStepSeqs == UNION { [1..k -> LLMSteps] : k \in 0..MaxLLMSteps }

\* What the text generator can answer: it raises, or returns text that
\* holds no JSON, invalid JSON, JSON that is no object, or a JSON object.
LLMOperations == {Absent, "divide", "mod"}

LLMResponses ==
    { [kind |-> k, operation |-> Absent, steps |-> << >>] :
        k \in {"exception", "no_json", "invalid_json", "not_object"} }
    \cup
    { [kind |-> "json", operation |-> o, steps |-> ss] :
        o \in LLMOperations, ss \in LLMStepSeqs }

\* The text generator is not called.
NoResponse == [kind |-> "none", operation |-> Absent, steps |-> << >>]

\* _parse_llm_plan: ok = FALSE stands for the exception it raises.
\* number is len(steps) + 1, the default of step_data.get("step_number")
parse_llm_step(step_data, operation, number) ==
    LET step_number == IF step_data.step_number = NoStepNumber THEN number
                       ELSE step_data.step_number
    IN  IF step_data.action = "execute_operation"
        THEN PlanStep(step_number, ACTION_TO_STEP_TYPE(step_data.action),
                      operation, OPERATION_TO_FUNCTION(operation), step_data.keys)
        ELSE PlanStep(step_number, ACTION_TO_STEP_TYPE(step_data.action),
                      step_data.operation, step_data.function, step_data.keys)

_parse_llm_plan(response) ==
    IF response.kind # "json"
    THEN [ok |-> FALSE, plan |-> NoPlan]
    ELSE LET operation == IF response.operation = Absent THEN "add"
                          ELSE response.operation
         IN  [ok |-> TRUE,
              plan |-> Plan([i \in 1..Len(response.steps) |->
                              parse_llm_step(response.steps[i], operation, i)])]

\* the fallback plan as a bug would have it: always an addition
_create_fallback_plan_add_only(input_operation) ==
    Plan(<< PlanStep(1, "query_database", Absent, Absent, RequestKeys),
            PlanStep(2, "execute_function", "add", "add_values", Absent),
            PlanStep(3, "verify_result", "add", Absent, Absent),
            PlanStep(4, "format_response", "add", Absent, Absent) >>)

\* _create_fallback_plan: input_operation is input_params.get("operation")
_create_fallback_plan(input_operation) ==
    LET operation == IF input_operation = Absent THEN "add" ELSE input_operation
        function_name == OPERATION_TO_FUNCTION(operation)
    IN  Plan(<< PlanStep(1, "query_database", Absent, Absent, RequestKeys),
                PlanStep(2, "execute_function", operation, function_name, Absent),
                PlanStep(3, "verify_result", operation, Absent, Absent),
                PlanStep(4, "format_response", operation, Absent, Absent) >>)

\* the try/except of orchestrator_node as a bug would have it: a response
\* that cannot be parsed leaves the context without a plan
plan_or_fallback_missing(response, input_operation) ==
    LET parsed == _parse_llm_plan(response)
    IN  IF parsed.ok THEN parsed.plan ELSE NoPlan

\* orchestrator_node: the plan of the try block, or of the except block
plan_or_fallback(response, input_operation) ==
    LET parsed == _parse_llm_plan(response)
    IN  IF parsed.ok THEN parsed.plan
        ELSE _create_fallback_plan(input_operation)

\* -------------------------------------------------------------- execution
NoError == "<none>"
DivZeroMsg == "Error: Division by zero is not allowed"
ValidationMsg == "validation error"
LookupFailedMsg == "lookup failed"

\* A lookup record (the DynamoDB item); found = FALSE is Python's None.
NoItem == [found |-> FALSE, val1 |-> None, val2 |-> None]
Item(val1, val2) == [found |-> TRUE, val1 |-> val1, val2 |-> val2]

\* The records the data lookup can return: every operand pair, one
\* record that lacks val1 and one whose val1 is no number.
Items ==
    { Item(Num(a), Num(b)) : a \in 0..MaxVal, b \in 0..MaxVal }
    \cup { Item(None, Num(1)), Item(Text, Num(1)) }

\* One call of query_dynamodb: a record, None, or an exception.
LookupOutcomes ==
    { [kind |-> "item", item |-> it] : it \in Items }
    \cup { [kind |-> k, item |-> NoItem] : k \in {"not_found", "exception"} }

\* ToolCallResult.  output of a lookup is the record (item), output of an
\* arithmetic tool is the value (output); val1/val2 are input_params of an
\* arithmetic call.  invoked is not a field of the program: it names the
\* tool function the call went to.
ToolCallResult(tool_name, item, output, success, error_message, val1, val2, invoked) ==
    [tool_name |-> tool_name, item |-> item, output |-> output,
     success |-> success, error_message |-> error_message,
     val1 |-> val1, val2 |-> val2, invoked |-> invoked]

\* The locals of execution_node before its loop.
ExecStart ==
    [tool_results |-> << >>, executed_steps |-> << >>, db_item |-> NoItem,
     final_value |-> None]

\* the lookup step as a bug would have it: an exception of the lookup is
\* swallowed and no ToolCallResult is recorded for it
query_step_swallowing(acc, step, outcome) ==
    LET executed == Append(acc.executed_steps, step.step_number)
    IN  IF step.keys = Absent
        THEN \* step.parameters["pk"] raises KeyError inside the try
             [acc EXCEPT !.executed_steps = executed,
                         !.tool_results = Append(@,
                            ToolCallResult("query_dynamodb", NoItem, None, FALSE,
                                           "KeyError", None, None, Absent))]
        ELSE IF outcome.kind = "exception"
        THEN [acc EXCEPT !.executed_steps = executed]
        ELSE [acc EXCEPT !.executed_steps = executed,
                         !.db_item = outcome.item,
                         !.tool_results = Append(@,
                            ToolCallResult("query_dynamodb", outcome.item, None,
                                           outcome.item.found,
                                           IF outcome.item.found THEN NoError
                                           ELSE "Item not found",
                                           None, None, "query_dynamodb"))]

\* execution_node, a QUERY_DATABASE step; outcome is what the lookup does.
query_step(acc, step, outcome) ==
    LET executed == Append(acc.executed_steps, step.step_number)
    IN  IF step.keys = Absent
        THEN \* step.parameters["pk"] raises KeyError inside the try
             [acc EXCEPT !.executed_steps = executed,
                         !.tool_results = Append(@,
                            ToolCallResult("query_dynamodb", NoItem, None, FALSE,
                                           "KeyError", None, None, Absent))]
        ELSE IF outcome.kind = "exception"
        THEN [acc EXCEPT !.executed_steps = executed,
                         !.tool_results = Append(@,
                            ToolCallResult("query_dynamodb", NoItem, None, FALSE,
                                           LookupFailedMsg, None, None,
                                           "query_dynamodb"))]
        ELSE [acc EXCEPT !.executed_steps = executed,
                         !.db_item = outcome.item,
                         !.tool_results = Append(@,
                            ToolCallResult("query_dynamodb", outcome.item, None,
                                           outcome.item.found,
                                           IF outcome.item.found THEN NoError
                                           ELSE "Item not found",
                                           None, None, "query_dynamodb"))]

\* the arithmetic call as a bug would have it: the "Error:" text of the
\* divide tool is not detected and is recorded as a successful output
calc_call_unchecked(acc, function_name, tool) ==
    LET val1 == acc.db_item.val1
        val2 == acc.db_item.val2
        result == Invoke(tool, val1, val2)
    IN  IF val1 = None \/ val2 = None
        THEN [acc EXCEPT !.tool_results = Append(@,
                ToolCallResult(function_name, NoItem, None, FALSE,
                               "val1 or val2 not found in database item",
                               val1, val2, Absent))]
        ELSE IF result = Raised
        THEN [acc EXCEPT !.tool_results = Append(@,
                ToolCallResult(function_name, NoItem, None, FALSE, ValidationMsg,
                               val1, val2, tool))]
        ELSE [acc EXCEPT !.final_value = result,
                         !.tool_results = Append(@,
                ToolCallResult(function_name, NoItem, result, TRUE, NoError,
                               val1, val2, tool))]

\* execution_node, the try block of an EXECUTE_FUNCTION step
calc_call(acc, function_name, tool) ==
    LET val1 == acc.db_item.val1
        val2 == acc.db_item.val2
        result == Invoke(tool, val1, val2)
    IN  IF val1 = None \/ val2 = None
        THEN [acc EXCEPT !.tool_results = Append(@,
                ToolCallResult(function_name, NoItem, None, FALSE,
                               "val1 or val2 not found in database item",
                               val1, val2, Absent))]
        ELSE IF result = Raised
        THEN [acc EXCEPT !.tool_results = Append(@,
                ToolCallResult(function_name, NoItem, None, FALSE, ValidationMsg,
                               val1, val2, tool))]
        ELSE IF result = ErrStr
        THEN [acc EXCEPT !.tool_results = Append(@,
                ToolCallResult(function_name, NoItem, None, FALSE, DivZeroMsg,
                               val1, val2, tool))]
        ELSE [acc EXCEPT !.final_value = result,
                         !.tool_results = Append(@,
                ToolCallResult(function_name, NoItem, result, TRUE, NoError,
                               val1, val2, tool))]

\* the arithmetic step as a bug would have it: it runs whether or not a
\* lookup record is cached
execute_step_unguarded(acc, step) ==
    LET operation == IF step.operation = Absent THEN "add" ELSE step.operation
        function_name == IF step.function = Absent THEN "add_values"
                         ELSE step.function
        tool == IF OPERATION_TO_TOOL(operation) # Absent
                THEN OPERATION_TO_TOOL(operation)
                ELSE OPERATION_TO_TOOL(function_name)
    IN  IF tool # Absent
        THEN calc_call([acc EXCEPT !.executed_steps = Append(@, step.step_number)],
                       function_name, tool)
        ELSE acc

\* execution_node, an EXECUTE_FUNCTION step
execute_step(acc, step) ==
    LET operation == IF step.operation = Absent THEN "add" ELSE step.operation
        function_name == IF step.function = Absent THEN "add_values"
                         ELSE step.function
        tool == IF OPERATION_TO_TOOL(operation) # Absent
                THEN OPERATION_TO_TOOL(operation)
                ELSE OPERATION_TO_TOOL(function_name)
    IN  IF tool # Absent /\ acc.db_item.found
        THEN calc_call([acc EXCEPT !.executed_steps = Append(@, step.step_number)],
                       function_name, tool)
        ELSE acc

\* execution_node, the loop over plan.steps from step i on; outcomes[i] is
\* what the lookup of step i does.
RECURSIVE run_steps(_, _, _, _)
run_steps(acc, steps, outcomes, i) ==
    IF i > Len(steps) THEN acc
    ELSE LET step == steps[i]
             next == CASE step.step_type = "query_database" ->
                            query_step(acc, step,
                                IF i \in DOMAIN outcomes THEN outcomes[i]
                                ELSE [kind |-> "exception", item |-> NoItem])
                       [] step.step_type = "execute_function" ->
                            execute_step(acc, step)
                       [] OTHER -> acc
         IN  run_steps(next, steps, outcomes, i + 1)

NoExecutionResult ==
    [present |-> FALSE, executed_steps |-> << >>, tool_results |-> << >>,
     final_value |-> None, success |-> FALSE]

\* the result as a bug would have it: all() alone, true of no call at all
ExecutionResult_all_only(acc) ==
    [present |-> TRUE, executed_steps |-> acc.executed_steps,
     tool_results |-> acc.tool_results, final_value |-> acc.final_value,
     success |-> \A i \in DOMAIN acc.tool_results : acc.tool_results[i].success]

\* ExecutionResult(...) at the end of execution_node
ExecutionResult(acc) ==
    [present |-> TRUE, executed_steps |-> acc.executed_steps,
     tool_results |-> acc.tool_results, final_value |-> acc.final_value,
     success |-> (\A i \in DOMAIN acc.tool_results : acc.tool_results[i].success)
                 /\ Len(acc.tool_results) > 0]

\* The steps of a plan whose lookup is really called.
LookupSteps(plan) ==
    { i \in DOMAIN plan.steps :
        plan.steps[i].step_type = "query_database"
        /\ plan.steps[i].keys # Absent }

\* ----------------------------------------------------------- verification
\* The verify_* tools return is_valid and expected.
verify_addition(val1, val2, result) ==
    LET expected == add_values(val1, val2)
    IN  [is_valid |-> expected = result, expected |-> expected]

\* the subtraction check as a bug would have it: operands swapped
verify_subtraction_swapped(val1, val2, result) ==
    LET expected == subtract_values(val2, val1)
    IN  [is_valid |-> expected = result, expected |-> expected]

verify_subtraction(val1, val2, result) ==
    LET expected == subtract_values(val1, val2)
    IN  [is_valid |-> expected = result, expected |-> expected]

verify_multiplication(val1, val2, result) ==
    LET expected == multiply_values(val1, val2)
    IN  [is_valid |-> expected = result, expected |-> expected]

\* the division check as a bug would have it: < tolerance instead of <=
verify_division_strict(val1, val2, result, tolerance) ==
    IF val2.n = 0
    THEN [is_valid |-> FALSE, expected |-> None]
    ELSE LET expected == Rat(val1.n * val2.d, val1.d * val2.n)
             diff == RatAbs(subtract_values(expected, result))
         IN  [is_valid |-> RatLeq(diff, tolerance) /\ diff # tolerance,
              expected |-> expected]

verify_division(val1, val2, result, tolerance) ==
    IF val2.n = 0
    THEN [is_valid |-> FALSE, expected |-> None]
    ELSE LET expected == Rat(val1.n * val2.d, val1.d * val2.n)
         IN  [is_valid |-> RatLeq(RatAbs(subtract_values(expected, result)),
                                  tolerance),
              expected |-> expected]

Tolerance == Rat(1, 1000000000)

\* OPERATION_TO_VERIFY_TOOL.get(operation, verify_addition) and its call,
\* which validates the arguments (numbers) and raises on anything else
VerifyInvoke(operation, val1, val2, result) ==
    IF ~IsNumber(val1) \/ ~IsNumber(val2) \/ ~IsNumber(result)
    THEN [is_valid |-> FALSE, expected |-> Raised]
    ELSE
    CASE operation \in {"subtract", "subtract_values"} ->
            verify_subtraction(val1, val2, result)
      [] operation \in {"multiply", "multiply_values"} ->
            verify_multiplication(val1, val2, result)
      [] operation \in {"divide", "divide_values"} ->
            \* "divide" passes tolerance=1e-9, the other key takes the default
            verify_division(val1, val2, result, Tolerance)
      [] OTHER -> verify_addition(val1, val2, result)

VerificationCheck(check_name, expected_value, actual_value, status) ==
    [check_name |-> check_name, expected_value |-> expected_value,
     actual_value |-> actual_value, status |-> status]

\* The last index of seq that satisfies Test, 0 for none.
LastIndex(seq, Test(_)) ==
    LET hits == { i \in DOMAIN seq : Test(seq[i]) }
    IN  IF hits = {} THEN 0 ELSE CHOOSE i \in hits : \A j \in hits : j <= i

IsLookupResult(tr) == tr.tool_name = "query_dynamodb" /\ tr.success

\* the elif: only reached when the first test fails
IsCalcResult(tr) == ~IsLookupResult(tr) /\ tr.tool_name \in Functions /\ tr.success

\* db_result of verification_node and response_node
DbResult(execution_result) ==
    LET i == LastIndex(execution_result.tool_results, IsLookupResult)
    IN  IF i = 0 THEN NoItem ELSE execution_result.tool_results[i].item

\* calc_result of verification_node and response_node
CalcResult(execution_result) ==
    LET i == LastIndex(execution_result.tool_results, IsCalcResult)
    IN  IF i = 0 THEN None ELSE execution_result.tool_results[i].output

\* operation of verification_node and response_node: the tool name of the
\* last successful arithmetic result, then overwritten by the first plan
\* step whose parameters hold an operation.
ResolveOperation(execution_result, plan) ==
    LET i == LastIndex(execution_result.tool_results, IsCalcResult)
        from_tool ==
            IF i = 0 THEN "add"
            ELSE CASE execution_result.tool_results[i].tool_name = "add_values" -> "add"
                   [] execution_result.tool_results[i].tool_name = "subtract_values" -> "subtract"
                   [] execution_result.tool_results[i].tool_name = "multiply_values" -> "multiply"
                   [] OTHER -> "divide"
        declared == { k \in DOMAIN plan.steps : plan.steps[k].operation # Absent }
    IN  IF declared = {} THEN from_tool
        ELSE plan.steps[CHOOSE k \in declared : \A j \in declared : k <= j].operation

NoVerificationResult ==
    [present |-> FALSE, checks |-> << >>, overall_status |-> "skipped",
     confidence_score |-> 0]

\* the result as a bug would have it: confidence from any passed check
VerificationResult_any_passed(checks) ==
    LET all_passed == \A i \in DOMAIN checks : checks[i].status = "passed"
        any_passed == \E i \in DOMAIN checks : checks[i].status = "passed"
    IN  [present |-> TRUE, checks |-> checks,
         overall_status |-> IF all_passed THEN "passed" ELSE "failed",
         confidence_score |-> IF any_passed THEN 1 ELSE 0]

\* confidence_score is 1 for 1.0 and 0 for 0.0
VerificationResult(checks) ==
    LET all_passed == \A i \in DOMAIN checks : checks[i].status = "passed"
    IN  [present |-> TRUE, checks |-> checks,
         overall_status |-> IF all_passed THEN "passed" ELSE "failed",
         confidence_score |-> IF all_passed THEN 1 ELSE 0]

\* the checks as a bug would have them: missing data adds no check
verification_checks_no_availability(execution_result, plan) ==
    LET db_result == DbResult(execution_result)
        calc_result == CalcResult(execution_result)
        operation == ResolveOperation(execution_result, plan)
    IN  IF db_result.found /\ calc_result # None
        THEN IF db_result.val1 # None /\ db_result.val2 # None
             THEN LET verify_result == VerifyInvoke(operation, db_result.val1,
                                                    db_result.val2, calc_result)
                  IN  << IF verify_result.expected = Raised
                         THEN \* the except block: two fixed texts
                              VerificationCheck(operation \o "_correctness",
                                                Text, Text, "failed")
                         ELSE VerificationCheck(operation \o "_correctness",
                                           verify_result.expected, calc_result,
                                           IF verify_result.is_valid THEN "passed"
                                           ELSE "failed"),
                         VerificationCheck("type_consistency", Text, Text,
                                           "passed") >>
             ELSE << >>
        ELSE << >>

\* verification_node once execution_result and plan are there: the checks
verification_checks(execution_result, plan) ==
    LET db_result == DbResult(execution_result)
        calc_result == CalcResult(execution_result)
        operation == ResolveOperation(execution_result, plan)
    IN  IF db_result.found /\ calc_result # None
        THEN IF db_result.val1 # None /\ db_result.val2 # None
             THEN LET verify_result == VerifyInvoke(operation, db_result.val1,
                                                    db_result.val2, calc_result)
                  IN  << IF verify_result.expected = Raised
                         THEN \* the except block: two fixed texts
                              VerificationCheck(operation \o "_correctness",
                                                Text, Text, "failed")
                         ELSE VerificationCheck(operation \o "_correctness",
                                           verify_result.expected, calc_result,
                                           IF verify_result.is_valid THEN "passed"
                                           ELSE "failed"),
                         VerificationCheck("type_consistency", Text, Text,
                                           "passed") >>
             ELSE << >>
        ELSE << VerificationCheck("data_availability", Text, Text, "failed") >>

\* --------------------------------------------------------------- response
Capitalize(operation) ==
    CASE operation = "add" -> "Add"
      [] operation = "subtract" -> "Subtract"
      [] operation = "multiply" -> "Multiply"
      [] operation = "divide" -> "Divide"
      [] operation = "mod" -> "Mod"
      [] OTHER -> operation

\* format_json: operation_symbols.get(operation, operation)
operation_symbols(operation) ==
    CASE operation = "add" -> "+"
      [] operation = "multiply" -> "*"
      [] operation = "divide" -> "/"
      [] OTHER -> operation

\* the f-string "{val1} {symbol} {val2} = {result}", kept as its four parts
NoExpression == [present |-> FALSE, val1 |-> None, symbol |-> "", val2 |-> None,
                 result |-> None]

format_json(val1, val2, result, operation) ==
    [present |-> TRUE, val1 |-> val1, symbol |-> operation_symbols(operation),
     val2 |-> val2, result |-> result]

EmptyData ==
    [keys |-> {}, val1 |-> None, val2 |-> None, result |-> None,
     operation |-> "", expression |-> NoExpression, verification_status |-> ""]

NoFormattedResponse ==
    [present |-> FALSE, success |-> FALSE, data |-> EmptyData,
     metadata |-> [keys |-> {}, steps_executed |-> 0,
                   verification_confidence |-> 0, verification_checks |-> 0],
     message |-> ""]

\* response_node, the two early returns
error_response(message) ==
    [present |-> TRUE, success |-> FALSE, data |-> EmptyData,
     metadata |-> [keys |-> {"request_id"}, steps_executed |-> 0,
                   verification_confidence |-> 0, verification_checks |-> 0],
     message |-> message]

\* is_success as a bug would have it: taken from the execution result
is_success_of_execution(execution_result, verification_result) ==
    execution_result.success

\* response_node: is_success
is_success(execution_result, verification_result) ==
    verification_result.overall_status = "passed"

\* response_node past the early returns
success_response(execution_result, verification_result, plan) ==
    LET db_result == DbResult(execution_result)
        calc_result == CalcResult(execution_result)
        operation == ResolveOperation(execution_result, plan)
        success == is_success(execution_result, verification_result)
        val1 == db_result.val1
        val2 == db_result.val2
        \* the if, and format_json.invoke not raising on its arguments
        \* (the else branch and the except fallback build the same data)
        full == /\ val1 # None /\ val2 # None /\ calc_result # None
                /\ IsNumber(val1) /\ IsNumber(val2) /\ IsNumber(calc_result)
    IN  [present |-> TRUE,
         success |-> success,
         data |-> [keys |-> {"val1", "val2", "result", "operation",
                             "verification_status"}
                            \cup (IF full THEN {"expression"} ELSE {}),
                   val1 |-> val1, val2 |-> val2, result |-> calc_result,
                   operation |-> operation,
                   expression |-> IF full
                                  THEN format_json(val1, val2, calc_result, operation)
                                  ELSE NoExpression,
                   verification_status |-> verification_result.overall_status],
         metadata |-> [keys |-> {"request_id", "plan_id", "steps_executed",
                                 "verification_confidence", "verification_checks"},
                       steps_executed |-> Len(execution_result.tool_results),
                       verification_confidence |-> verification_result.confidence_score,
                       verification_checks |-> Len(verification_result.checks)],
         message |-> IF success
                     THEN Capitalize(operation) \o " completed successfully"
                     ELSE Capitalize(operation) \o " completed with verification failures"]

\* the response as a bug would have it: missing data is tested before
\* the error
formatted_missing_first(err, er, vr, pl) ==
    IF ~er.present \/ ~vr.present \/ ~pl.present
    THEN error_response("Incomplete execution - missing required data")
    ELSE IF err # NoError
    THEN error_response("Error: " \o err)
    ELSE success_response(er, vr, pl)

\* response_node: the FormattedResponse it builds
formatted(err, er, vr, pl) ==
    IF err # NoError
    THEN error_response("Error: " \o err)
    ELSE IF ~er.present \/ ~vr.present \/ ~pl.present
    THEN error_response("Incomplete execution - missing required data")
    ELSE success_response(er, vr, pl)

\* ---------------------------------------------------------------- routing
route_after_orchestrator(err, pl) ==
    IF err # NoError \/ ~pl.present THEN "error" ELSE "execution"

\* the execution routing as a bug would have it: a missing result is
\* retried like a failed one
route_after_execution_retry_absent(er, count) ==
    IF ~er.present \/ ~er.success
    THEN IF count < 3 THEN "retry" ELSE "error"
    ELSE "verification"

\* the execution routing as a bug would have it: it gives up earlier than
\* the verification routing does
route_after_execution_budget_1(er, count) ==
    IF ~er.present THEN "error"
    ELSE IF ~er.success
         THEN IF count < 1 THEN "retry" ELSE "error"
         ELSE "verification"

\* the execution routing as a bug would have it: one retry too many
route_after_execution_off_by_one(er, count) ==
    IF ~er.present THEN "error"
    ELSE IF ~er.success
         THEN IF count <= 3 THEN "retry" ELSE "error"
         ELSE "verification"

route_after_execution(er, count) ==
    IF ~er.present THEN "error"
    ELSE IF ~er.success
         THEN IF count < 3 THEN "retry" ELSE "error"
         ELSE "verification"

\* the verification routing as a bug would have it: a missing result is
\* retried like a failed one
route_after_verification_retry_absent(vr, count) ==
    IF ~vr.present \/ vr.overall_status = "failed"
    THEN IF count < 2 THEN "retry_execution" ELSE "error"
    ELSE "response"

\* the verification routing as a bug would have it: the budget of the
\* execution edge
route_after_verification_budget_3(vr, count) ==
    IF ~vr.present THEN "error"
    ELSE IF vr.overall_status = "failed"
         THEN IF count < 3 THEN "retry_execution" ELSE "error"
         ELSE "response"

route_after_verification(vr, count) ==
    IF ~vr.present THEN "error"
    ELSE IF vr.overall_status = "failed"
         THEN IF count < 2 THEN "retry_execution" ELSE "error"
         ELSE "response"

\* create_agent_graph: the node each edge label leads to
EdgeTarget(label) ==
    CASE label = "execution" -> "execution"
      [] label = "verification" -> "verification"
      [] label = "retry" -> "execution"
      [] label = "retry_execution" -> "execution"
      [] label = "response" -> "response"
      [] OTHER -> "response"

\* ------------------------------------------------------------------ state
\* The AgentState of one run, the node the graph runs next (pc), what the
\* data lookup did in the latest Execute attempt (lookups, by step), and four
\* history variables: route is the label of the last conditional edge taken;
\* exec_retries counts the Execute -> Execute edges taken since the last
\* successful Execute, verify_retries the Verify -> Execute edges taken
\* since the last failed Execute (both stop counting at MaxCount);
\* odd_attempts tells whether the number of Execute attempts so far is odd.
\* peer is the context of a second request that runs through the same
\* compiled graph, NoPeer when there is none.
VARIABLES pc, input_operation, plan, execution_result, verification_result,
          formatted_response, error, retry_count, current_step,
          lookups, route, exec_retries, verify_retries, odd_attempts, peer,
          node_timings

vars == << pc, input_operation, plan, execution_result, verification_result,
           formatted_response, error, retry_count, current_step,
           lookups, route, exec_retries, verify_retries, odd_attempts, peer,
           node_timings >>

\* input_params["operation"] of a request: TaskRequest.operation is any
\* string, "add" by default.
InputOperations == Ops \cup {"mod"}

Bump(count) == IF count < MaxCount THEN count + 1 ELSE count

\* No second request is running.
NoPeer == [present |-> FALSE]

\* initial_state of execute_calculation_task, but for retry_count
InitContext ==
    /\ pc = "orchestrator"
    /\ input_operation \in InputOperations
    /\ plan = NoPlan
    /\ execution_result = NoExecutionResult
    /\ verification_result = NoVerificationResult
    /\ formatted_response = NoFormattedResponse
    /\ error = NoError
    /\ current_step = "start"
    /\ lookups = << >>
    /\ route = "start"
    /\ exec_retries = 0
    /\ verify_retries = 0
    /\ odd_attempts = FALSE
    /\ node_timings = {}

\* execute_calculation_task: "retry_count": 0
Init == InitContext /\ retry_count = 0 /\ peer = NoPeer

\* The compiled graph invoked on a context its caller built: retry_count is
\* a field of the input state, read with state.get("retry_count", 0).
InitCtx == InitContext /\ retry_count \in 0..MaxRetryInit /\ peer = NoPeer

\* orchestrator_node and the conditional edge after it
orchestrator_node ==
    /\ pc = "orchestrator"
    /\ \E response \in LLMResponses :
         plan' = plan_or_fallback(response, input_operation)
    /\ current_step' = "orchestrator_complete"
    /\ node_timings' = {"orchestrator"}
    /\ route' = route_after_orchestrator(error, plan')
    /\ pc' = EdgeTarget(route')
    /\ UNCHANGED << input_operation, execution_result, verification_result,
                    formatted_response, error, retry_count, lookups,
                    exec_retries, verify_retries, odd_attempts >>

\* execution_node as a bug would have it: the lists and the cached record
\* of the previous attempt are kept
execution_node_accumulating ==
    /\ pc = "execution"
    /\ IF ~plan.present
       THEN /\ execution_result' = NoExecutionResult
            /\ error' = "No plan available for execution"
            /\ current_step' = "execution_failed"
            /\ lookups' = << >>
       ELSE /\ \E outcomes \in [LookupSteps(plan) -> LookupOutcomes] :
                 /\ lookups' = outcomes
                 /\ execution_result' =
                       ExecutionResult(run_steps(
                              [ExecStart EXCEPT
                                 !.tool_results = execution_result.tool_results,
                                 !.executed_steps = execution_result.executed_steps,
                                 !.final_value = execution_result.final_value],
                              plan.steps, outcomes, 1))
            /\ current_step' = "execution_complete"
            /\ error' = error
    /\ route' = route_after_execution(execution_result', retry_count)
    /\ pc' = EdgeTarget(route')
    /\ exec_retries' = CASE route' = "retry" -> Bump(exec_retries)
                          [] route' = "verification" -> 0
                          [] OTHER -> exec_retries
    /\ verify_retries' = IF route' = "retry" THEN 0 ELSE verify_retries
    /\ odd_attempts' = ~odd_attempts
    /\ UNCHANGED << input_operation, plan, verification_result,
                    formatted_response, retry_count, node_timings >>

\* execution_node and the conditional edge after it
execution_node ==
    /\ pc = "execution"
    /\ IF ~plan.present
       THEN /\ execution_result' = NoExecutionResult
            /\ error' = "No plan available for execution"
            /\ current_step' = "execution_failed"
            /\ lookups' = << >>
       ELSE /\ \E outcomes \in [LookupSteps(plan) -> LookupOutcomes] :
                 /\ lookups' = outcomes
                 /\ execution_result' =
                       ExecutionResult(run_steps(ExecStart, plan.steps, outcomes, 1))
            /\ current_step' = "execution_complete"
            /\ error' = error
    /\ route' = route_after_execution(execution_result', retry_count)
    /\ pc' = EdgeTarget(route')
    /\ exec_retries' = CASE route' = "retry" -> Bump(exec_retries)
                          [] route' = "verification" -> 0
                          [] OTHER -> exec_retries
    /\ verify_retries' = IF route' = "retry" THEN 0 ELSE verify_retries
    /\ odd_attempts' = ~odd_attempts
    /\ UNCHANGED << input_operation, plan, verification_result,
                    formatted_response, retry_count, node_timings >>

\* verification_node and the conditional edge after it
verification_node ==
    /\ pc = "verification"
    /\ IF ~execution_result.present \/ ~plan.present
       THEN /\ verification_result' = NoVerificationResult
            /\ error' = "Missing execution result or plan for verification"
            /\ current_step' = "verification_failed"
       ELSE /\ verification_result' =
                   VerificationResult(verification_checks(execution_result, plan))
            /\ current_step' = "verification_complete"
            /\ error' = error
    /\ route' = route_after_verification(verification_result', retry_count)
    /\ pc' = EdgeTarget(route')
    /\ verify_retries' = IF route' = "retry_execution" THEN Bump(verify_retries)
                         ELSE verify_retries
    /\ node_timings' = {"verification"}
    /\ UNCHANGED << input_operation, plan, execution_result,
                    formatted_response, retry_count, lookups, exec_retries,
                    odd_attempts >>

\* response_node and the edge to END; route keeps the edge Respond was
\* reached over
response_node ==
    /\ pc = "response"
    /\ formatted_response' =
         formatted(error, execution_result, verification_result, plan)
    /\ current_step' = "complete"
    /\ node_timings' = {"response"}
    /\ pc' = "done"
    /\ UNCHANGED << input_operation, plan, execution_result, verification_result,
                    error, retry_count, lookups, route, exec_retries,
                    verify_retries, odd_attempts >>

\* verification_node called on a hand-built state, as the unit tests of
\* TestVerificationNode do: one successful lookup of (val1, val2) and one
\* successful arithmetic result r recorded under the function of op, with
\* a plan that has no steps or the fallback plan of op.
TestResults ==
    { Num(r) : r \in (0 - MaxVal)..(2 * MaxVal) }
    \cup { Rat(e, 1000000000) : e \in {-2, -1, 1, 2} }

TestExecutionResult(val1, val2, function_name, r) ==
    [present |-> TRUE, executed_steps |-> << 1, 2 >>,
     tool_results |->
        << ToolCallResult("query_dynamodb", Item(val1, val2), None, TRUE,
                          NoError, None, None, "query_dynamodb"),
           \* r was recorded for an arithmetic call, so for numbers
           ToolCallResult(function_name, NoItem, r, TRUE, NoError,
                          IF IsNumber(val1) THEN val1 ELSE Num(0), val2,
                          function_name) >>,
     final_value |-> r, success |-> TRUE]

\* The operands of the hand-built states: numbers, and a text.
TestOperands == { Num(a) : a \in 0..MaxVal } \cup {Text}

InitVerify ==
    /\ pc = "verification"
    /\ input_operation \in Ops
    /\ plan \in {Plan(<< >>), _create_fallback_plan(input_operation)}
    /\ \E val1 \in TestOperands, b \in 0..MaxVal, r \in TestResults :
         execution_result =
             TestExecutionResult(val1, Num(b),
                                 OPERATION_TO_FUNCTION(input_operation), r)
    /\ verification_result = NoVerificationResult
    /\ formatted_response = NoFormattedResponse
    /\ error = NoError
    /\ retry_count = 0
    /\ current_step = "execution_complete"
    /\ lookups = << >>
    /\ route = "verification"
    /\ exec_retries = 0
    /\ verify_retries = 0
    /\ odd_attempts = TRUE
    /\ node_timings = {}
    /\ peer = NoPeer

\* The state orchestrator_node leaves when the text generator answered with
\* one of the three-step plans.
InitLongPlan ==
    /\ pc = "execution"
    /\ input_operation \in Ops
    /\ \E response \in LongResponses :
         plan = plan_or_fallback(response, input_operation)
    /\ execution_result = NoExecutionResult
    /\ verification_result = NoVerificationResult
    /\ formatted_response = NoFormattedResponse
    /\ error = NoError
    /\ retry_count = 0
    /\ current_step = "orchestrator_complete"
    /\ lookups = << >>
    /\ route = "execution"
    /\ exec_retries = 0
    /\ verify_retries = 0
    /\ odd_attempts = FALSE
    /\ node_timings = {"orchestrator"}
    /\ peer = NoPeer

\* Tool results of hand-built ExecutionResults that lack a successful
\* lookup or a successful arithmetic result, as in
\* test_verification_with_missing_tool_results (no results at all).
TestLookupResult(found) ==
    ToolCallResult("query_dynamodb",
                   IF found THEN Item(Num(MaxVal), Num(1)) ELSE NoItem, None,
                   found, IF found THEN NoError ELSE "Item not found",
                   None, None, "query_dynamodb")

TestCalcResult(function_name, ok) ==
    ToolCallResult(function_name, NoItem, IF ok THEN Num(MaxVal + 1) ELSE None,
                   ok, IF ok THEN NoError ELSE ValidationMsg,
                   Num(MaxVal), Num(1), function_name)

MissingToolResults ==
    { << >> }
    \cup { << TestLookupResult(found) >> : found \in BOOLEAN }
    \cup { << TestCalcResult(f, ok) >> : f \in Functions, ok \in BOOLEAN }
    \cup { << TestLookupResult(found), TestCalcResult(f, ok) >> :
             found \in BOOLEAN, f \in Functions, ok \in BOOLEAN }

\* verification_node called on such a hand-built state.
InitVerifyMissing ==
    /\ pc = "verification"
    /\ input_operation \in Ops
    /\ plan \in {Plan(<< >>), _create_fallback_plan(input_operation)}
    /\ \E results \in MissingToolResults, success \in BOOLEAN :
         execution_result =
             [present |-> TRUE,
              executed_steps |-> [i \in DOMAIN results |-> i],
              tool_results |-> results,
              final_value |-> IF results # << >> /\ results[Len(results)].output # None
                              THEN results[Len(results)].output ELSE None,
              success |-> success]
    /\ verification_result = NoVerificationResult
    /\ formatted_response = NoFormattedResponse
    /\ error = NoError
    /\ retry_count = 0
    /\ current_step = "execution_complete"
    /\ lookups = << >>
    /\ route = "verification"
    /\ exec_retries = 0
    /\ verify_retries = 0
    /\ odd_attempts = TRUE
    /\ node_timings = {}
    /\ peer = NoPeer

\* execution_node and verification_node entered without their inputs, as in
\* test_returns_error_when_no_plan (no plan) and
\* test_returns_error_when_missing_data (no plan, no execution result);
\* Verify also with only one of the two missing.
InitStageAlone ==
    /\ pc \in {"execution", "verification"}
    /\ input_operation \in Ops
    /\ plan \in {NoPlan, _create_fallback_plan(input_operation)}
    /\ execution_result \in
         {NoExecutionResult,
          TestExecutionResult(Num(MaxVal), Num(1), "add_values", Num(MaxVal + 1))}
    /\ pc = "execution" => ~plan.present /\ ~execution_result.present
    /\ pc = "verification" => ~plan.present \/ ~execution_result.present
    /\ verification_result = NoVerificationResult
    /\ formatted_response = NoFormattedResponse
    /\ error = NoError
    /\ retry_count \in 0..MaxRetryInit
    /\ current_step = "init"
    /\ lookups = << >>
    /\ route = "start"
    /\ exec_retries = 0
    /\ verify_retries = 0
    /\ odd_attempts = FALSE
    /\ node_timings = {}
    /\ peer = NoPeer

\* orchestrator_node called on the base state of the unit tests, whose
\* input_params hold the two keys and no "operation".
InitOrchestrate ==
    /\ pc = "orchestrator"
    /\ input_operation = Absent
    /\ plan = NoPlan
    /\ execution_result = NoExecutionResult
    /\ verification_result = NoVerificationResult
    /\ formatted_response = NoFormattedResponse
    /\ error = NoError
    /\ retry_count = 0
    /\ current_step = "init"
    /\ lookups = << >>
    /\ route = "start"
    /\ exec_retries = 0
    /\ verify_retries = 0
    /\ odd_attempts = FALSE
    /\ node_timings = {}
    /\ peer = NoPeer

\* response_node called on a hand-built state, as the unit tests of
\* TestResponseNode do: the base state with an error text or none, with or
\* without a plan, an execution result and a verification result.
InitRespond ==
    /\ pc = "response"
    /\ input_operation = Absent
    /\ error \in {NoError, "Something went wrong"}
    /\ plan \in {NoPlan, Plan(<< >>)}
    /\ \/ execution_result = NoExecutionResult
       \/ \E a, b \in 0..MaxVal, wrong \in 0..1 :
            execution_result =
                TestExecutionResult(Num(a), Num(b), "add_values",
                                    Num(a + b + wrong))
    /\ \/ verification_result = NoVerificationResult
       \/ /\ execution_result.present
          /\ verification_result =
                VerificationResult(verification_checks(execution_result, Plan(<< >>)))
    /\ formatted_response = NoFormattedResponse
    /\ retry_count = 0
    /\ current_step = "init"
    /\ lookups = << >>
    /\ route = "start"
    /\ exec_retries = 0
    /\ verify_retries = 0
    /\ odd_attempts = FALSE
    /\ node_timings = {}
    /\ peer = NoPeer

\* The AgentState of the run held in the variables, as one value.
Context ==
    [pc |-> pc, input_operation |-> input_operation, plan |-> plan,
     execution_result |-> execution_result,
     verification_result |-> verification_result,
     formatted_response |-> formatted_response, error |-> error,
     retry_count |-> retry_count, current_step |-> current_step]

\* the graph step as a bug would have it: the requested operation is not
\* read from the run's own input_params
NodeStep_default_operation(ctx, response, outcomes) ==
    CASE ctx.pc = "orchestrator" ->
            LET pl == plan_or_fallback(response, Absent)
            IN  [ctx EXCEPT !.plan = pl,
                            !.current_step = "orchestrator_complete",
                            !.pc = EdgeTarget(route_after_orchestrator(ctx.error, pl))]
      [] ctx.pc = "execution" ->
            LET er == ExecutionResult(run_steps(ExecStart, ctx.plan.steps, outcomes, 1))
            IN  [ctx EXCEPT !.execution_result = er,
                            !.current_step = "execution_complete",
                            !.pc = EdgeTarget(route_after_execution(er, ctx.retry_count))]
      [] ctx.pc = "verification" ->
            LET vr == VerificationResult(
                          verification_checks(ctx.execution_result, ctx.plan))
            IN  [ctx EXCEPT !.verification_result = vr,
                            !.current_step = "verification_complete",
                            !.pc = EdgeTarget(route_after_verification(vr, ctx.retry_count))]
      [] ctx.pc = "response" ->
            [ctx EXCEPT !.formatted_response =
                            formatted(ctx.error, ctx.execution_result,
                                      ctx.verification_result, ctx.plan),
                        !.current_step = "complete",
                        !.pc = "done"]
      [] OTHER -> ctx

\* graph.ainvoke on a context of its own: one node and the edge after it,
\* as a function of that context, of what the text generator answered
\* (response) and of what the lookups did (outcomes, by step).
NodeStep(ctx, response, outcomes) ==
    CASE ctx.pc = "orchestrator" ->
            LET pl == plan_or_fallback(response, ctx.input_operation)
            IN  [ctx EXCEPT !.plan = pl,
                            !.current_step = "orchestrator_complete",
                            !.pc = EdgeTarget(route_after_orchestrator(ctx.error, pl))]
      [] ctx.pc = "execution" ->
            IF ~ctx.plan.present
            THEN [ctx EXCEPT !.execution_result = NoExecutionResult,
                             !.error = "No plan available for execution",
                             !.current_step = "execution_failed",
                             !.pc = EdgeTarget(route_after_execution(
                                        NoExecutionResult, ctx.retry_count))]
            ELSE LET er == ExecutionResult(
                               run_steps(ExecStart, ctx.plan.steps, outcomes, 1))
                 IN  [ctx EXCEPT !.execution_result = er,
                                 !.current_step = "execution_complete",
                                 !.pc = EdgeTarget(route_after_execution(
                                            er, ctx.retry_count))]
      [] ctx.pc = "verification" ->
            IF ~ctx.execution_result.present \/ ~ctx.plan.present
            THEN [ctx EXCEPT !.verification_result = NoVerificationResult,
                             !.error = "Missing execution result or plan for verification",
                             !.current_step = "verification_failed",
                             !.pc = EdgeTarget(route_after_verification(
                                        NoVerificationResult, ctx.retry_count))]
            ELSE LET vr == VerificationResult(
                               verification_checks(ctx.execution_result, ctx.plan))
                 IN  [ctx EXCEPT !.verification_result = vr,
                                 !.current_step = "verification_complete",
                                 !.pc = EdgeTarget(route_after_verification(
                                            vr, ctx.retry_count))]
      [] ctx.pc = "response" ->
            [ctx EXCEPT !.formatted_response =
                            formatted(ctx.error, ctx.execution_result,
                                      ctx.verification_result, ctx.plan),
                        !.current_step = "complete",
                        !.pc = "done"]
      [] OTHER -> ctx

\* A second run started from the same context, with stubs for the text
\* generator and the lookup that answer it as they answer the first run:
\* the two runs step together.
twin_node ==
    /\ peer.present
    /\ \/ orchestrator_node
       \/ execution_node
       \/ verification_node
       \/ response_node
    /\ IF pc = "orchestrator"
       THEN \E response \in LLMResponses :
               /\ plan' = plan_or_fallback(response, input_operation)
               /\ peer' = [peer EXCEPT !.ctx = NodeStep(@, response, << >>)]
       ELSE peer' = [peer EXCEPT !.ctx = NodeStep(@, NoResponse, lookups')]

InitTwin ==
    /\ InitContext
    /\ retry_count \in 0..MaxRetryInit
    /\ peer = [present |-> TRUE, ctx |-> Context, awaiting |-> FALSE]

\* What the stubs answer the second request of SpecPair: the text
\* generator fails or returns a plan of a lookup and a division; the
\* lookup finds a record or finds none.
PeerResponses ==
    { r \in LLMResponses :
        \/ r.kind = "exception"
        \/ /\ r.kind = "json" /\ r.operation = "divide" /\ Len(r.steps) = 2
           /\ r.steps[1].action = "query_database"
           /\ r.steps[1].keys = RequestKeys
           /\ r.steps[2].action = "execute_operation"
           /\ r.steps[2].step_number = NoStepNumber }

PeerLookupOutcomes ==
    { o \in LookupOutcomes :
        /\ o.kind \in {"item", "not_found"}
        /\ o.kind = "item" => (o.item.val1 = Num(MaxVal) /\ o.item.val2 = Num(1)) }

RunUnchanged ==
    UNCHANGED << pc, input_operation, plan, execution_result,
                 verification_result, formatted_response, error, retry_count,
                 current_step, lookups, route, exec_retries, verify_retries,
                 odd_attempts, node_timings >>

\* The second request reaches a suspension point of its node: the call of
\* the text generator, or of the lookup, is in flight.
peer_call ==
    /\ peer.present /\ ~peer.awaiting
    /\ peer.ctx.pc \in {"orchestrator", "execution"}
    /\ peer' = [peer EXCEPT !.awaiting = TRUE]
    /\ RunUnchanged

\* the second request as a bug would have it: the plan is kept in one
\* place for all requests
peer_node_shared ==
    /\ peer.present
    /\ peer.ctx.pc \in {"orchestrator", "execution"} => peer.awaiting
    /\ peer.ctx.pc # "done"
    /\ \E response \in PeerResponses,
          outcomes \in [LookupSteps(peer.ctx.plan) -> PeerLookupOutcomes] :
         peer' = [peer EXCEPT
                    !.ctx = NodeStep([@ EXCEPT !.plan = IF plan.present THEN plan ELSE @],
                                     response, outcomes),
                    !.awaiting = FALSE]
    /\ RunUnchanged

\* The second request runs a node to its end (resumed with the answer of
\* the call it was waiting for) and takes the edge after it.
peer_node ==
    /\ peer.present
    /\ peer.ctx.pc \in {"orchestrator", "execution"} => peer.awaiting
    /\ peer.ctx.pc # "done"
    /\ \E response \in PeerResponses,
          outcomes \in [LookupSteps(peer.ctx.plan) -> PeerLookupOutcomes] :
         peer' = [peer EXCEPT !.ctx = NodeStep(@, response, outcomes),
                              !.awaiting = FALSE]
    /\ RunUnchanged

\* operate_on_pair and execute_calculation_task: two requests, each with
\* an initial_state of its own, on the one compiled graph.
InitPair ==
    /\ InitContext
    /\ input_operation = "subtract"
    /\ retry_count = 0
    /\ peer = [present |-> TRUE,
               ctx |-> [Context EXCEPT !.input_operation = "divide"],
               awaiting |-> FALSE]

Next ==
    \/ orchestrator_node /\ UNCHANGED peer
    \/ execution_node /\ UNCHANGED peer
    \/ verification_node /\ UNCHANGED peer
    \/ response_node /\ UNCHANGED peer

Spec == Init /\ [][Next]_vars

SpecCtx == InitCtx /\ [][Next]_vars

\* The runs of the pipeline together with verification_node on the
\* hand-built states.
SpecVerify == (Init \/ InitVerify) /\ [][Next]_vars

\* The runs of the pipeline together with those from the base state of the
\* unit tests.
SpecOrchestrate == (Init \/ InitOrchestrate) /\ [][Next]_vars

\* A run is not abandoned half way: the graph runs the next node.
SpecRespond == (InitCtx \/ InitRespond) /\ [][Next]_vars

\* verification_node on an ExecutionResult with results missing.
SpecVerifyMissing == (Init \/ InitVerifyMissing) /\ [][Next]_vars

\* Execute or Verify entered without their inputs.
SpecStageAlone == (Init \/ InitStageAlone) /\ [][Next]_vars

\* A run whose plan has three steps.
SpecLongPlan == (Init \/ InitLongPlan) /\ [][Next]_vars

NextPair == Next \/ peer_call \/ peer_node

SpecPair == InitPair /\ [][NextPair]_vars

SpecTwin == InitTwin /\ [][twin_node]_vars

FairSpec == Init /\ [][Next]_vars /\ WF_vars(Next)

\* ================================================================= claims

\* A retry transition: the graph goes back to Execute.
RetryTransition ==
    /\ pc \in {"execution", "verification"}
    /\ pc' = "execution"

\* C1: when every Execute attempt of a run fails, the Execute -> Execute
\* edge is taken only while retry_count < 3 and the run performs at most 4
\* Execute attempts, that is at most 3 retries in a row.
C1_AtMostFourAttempts ==
    ~verification_result.present =>
        /\ exec_retries <= 3
        /\ (route = "retry" => retry_count < 3)

\* C2: every run started in Orchestrate with retry_count = 0 eventually
\* reaches Respond and yields a FormattedResponse.
C2_EventuallyResponds ==
    <>(pc = "done" /\ formatted_response.present)

\* C3: when Respond is reached over an error edge, error is set when
\* Respond runs, and the response has success = false and a message that
\* embeds the error text.
C3_ErrorEdgeSetsError ==
    (route = "error" /\ pc \in {"response", "done"}) =>
        /\ error # NoError
        /\ pc = "done" =>
              /\ ~formatted_response.success
              /\ formatted_response.message = "Error: " \o error

\* C4: retry_count is incremented by exactly one on every Execute -> Execute
\* and Verify -> Execute transition and left unchanged by every other one.
C4_RetryCountCounts ==
    [][IF RetryTransition THEN retry_count' = retry_count + 1
       ELSE retry_count' = retry_count]_vars

\* C5: when Execute succeeds but Verify fails on every attempt, the
\* Verify -> Execute edge is taken only while retry_count < 2, so that
\* execution is re-run at most 2 times because of verification failures.
C5_AtMostTwoVerifyRetries ==
    /\ verify_retries <= 2
    /\ (route = "retry_execution" => retry_count < 2)

\* A ToolCallResult of a division by zero: the divide tool was called with
\* val2 = 0.
IsDivideByZero(tr) == tr.invoked = "divide_values" /\ tr.val2 = Num(0)

\* The verification result in the state was computed from the execution
\* result in the state.
VerifiedNow ==
    current_step = "verification_complete" /\ verification_result.present

\* C6: a divide step on a record with val2 = 0 records a ToolCallResult with
\* success = false and an error message, never a successful one whose
\* output is the "Error: ..." text; it sets no final_value, the
\* ExecutionResult has success = false, and a division check that
\* verification runs on val2 = 0 is Failed.
C6_DivideByZeroFails ==
    /\ execution_result.present =>
          LET trs == execution_result.tool_results
          IN  /\ \A i \in DOMAIN trs :
                    /\ ~(trs[i].success /\ trs[i].output = ErrStr)
                    /\ IsDivideByZero(trs[i]) =>
                          /\ ~trs[i].success
                          /\ trs[i].error_message = DivZeroMsg
                          /\ trs[i].output = None
                          /\ ~execution_result.success
              /\ execution_result.final_value # ErrStr
              /\ execution_result.final_value # None =>
                    \E i \in DOMAIN trs :
                        /\ trs[i].success
                        /\ ~IsDivideByZero(trs[i])
                        /\ trs[i].output = execution_result.final_value
    /\ VerifiedNow =>
          \A k \in DOMAIN verification_result.checks :
              (/\ verification_result.checks[k].check_name = "divide_correctness"
               /\ DbResult(execution_result).val2 = Num(0))
              => /\ verification_result.checks[k].status = "failed"
                 /\ verification_result.checks[k].expected_value = None
                 /\ verification_result.overall_status = "failed"

\* C6 witness: Execute has run a divide step on a record with val2 = 0.
C6_Witness ==
    /\ execution_result.present
    /\ \E i \in DOMAIN execution_result.tool_results :
          IsDivideByZero(execution_result.tool_results[i])

\* The arithmetic meaning of an operation.
Meaning(op, val1, val2) ==
    CASE op = "add" -> Rat(val1.n * val2.d + val2.n * val1.d, val1.d * val2.d)
      [] op = "subtract" -> Rat(val1.n * val2.d - val2.n * val1.d, val1.d * val2.d)
      [] OTHER -> Rat(val1.n * val2.n, val1.d * val2.d)

\* The execution result holds one successful lookup of two operands and
\* one successful arithmetic result recorded for op, and the plan declares
\* no other operation.
HoldsLookupAndResult(op) ==
    LET trs == execution_result.tool_results
    IN  /\ Len(trs) = 2
        /\ trs[1].tool_name = "query_dynamodb" /\ trs[1].success
        /\ IsNumber(trs[1].item.val1) /\ IsNumber(trs[1].item.val2)
        /\ trs[2].tool_name = OPERATION_TO_FUNCTION(op) /\ trs[2].success
        /\ \A k \in DOMAIN plan.steps : plan.steps[k].operation \in {Absent, op}

RespondedWithData ==
    /\ pc = "done"
    /\ error = NoError
    /\ plan.present /\ execution_result.present /\ verification_result.present

\* C8: on the non-error branch of Respond, FormattedResponse.success is
\* true if and only if the verification overall status is Passed.
C8_SuccessIffPassed ==
    RespondedWithData =>
        (formatted_response.success <=>
            verification_result.overall_status = "passed")

\* C8 witness: Respond ran on its non-error branch after an execution that
\* succeeded and a verification that failed.
C8_Witness ==
    /\ RespondedWithData
    /\ execution_result.success
    /\ verification_result.overall_status = "failed"
    /\ ~formatted_response.success

\* C9: after Execute the next stage is Verify iff the execution result is
\* present with success = true, Execute again iff it is present with
\* success = false and retry_count < 3, and Respond on the error path iff
\* it is absent, or it failed and retry_count >= 3.
C9_RouteAfterExecution ==
    [][pc = "execution" =>
          /\ (pc' = "verification") <=>
                (execution_result'.present /\ execution_result'.success)
          /\ (pc' = "execution") <=>
                (/\ execution_result'.present /\ ~execution_result'.success
                 /\ retry_count' < 3)
          /\ (pc' = "response" /\ route' = "error") <=>
                \/ ~execution_result'.present
                \/ ~execution_result'.success /\ retry_count' >= 3
          /\ pc' \in {"verification", "execution", "response"}]_vars

\* C9 witness: Execute failed with the budget used up and the run went to
\* Respond over the error edge.
C9_Witness ==
    /\ pc = "response" /\ route = "error"
    /\ current_step = "execution_complete"
    /\ execution_result.present /\ ~execution_result.success
    /\ retry_count = 3

\* C10: after Verify the run goes to Respond on the success path only if
\* the overall status is Passed, back to Execute iff the status is Failed
\* and retry_count < 2, and to Respond on the error path iff the status is
\* Failed with retry_count >= 2 or there is no verification result.
C10_RouteAfterVerification ==
    [][pc = "verification" =>
          /\ (pc' = "response" /\ route' = "response") =>
                (/\ verification_result'.present
                 /\ verification_result'.overall_status = "passed")
          /\ (pc' = "execution") <=>
                (/\ verification_result'.present
                 /\ verification_result'.overall_status = "failed"
                 /\ retry_count' < 2)
          /\ (pc' = "response" /\ route' = "error") <=>
                \/ ~verification_result'.present
                \/ /\ verification_result'.overall_status = "failed"
                   /\ retry_count' >= 2
          /\ \/ pc' = "execution"
             \/ pc' = "response" /\ route' \in {"response", "error"}]_vars

\* C10 witness: Verify failed with retry_count = 2 and the run went to
\* Respond over the error edge.
C10_Witness ==
    /\ pc = "response" /\ route = "error"
    /\ current_step = "verification_complete"
    /\ verification_result.overall_status = "failed"
    /\ retry_count = 2

\* C11: whatever the text generator answers (an exception, text without
\* JSON, invalid JSON, JSON of the wrong shape, a JSON plan), Orchestrate
\* leaves a plan in the context and error unset, and the run goes on to
\* Execute, never to Respond over the error edge.
C11_PlanningNeverFails ==
    [][pc = "orchestrator" =>
          /\ plan'.present
          /\ error' = NoError
          /\ route' = "execution"
          /\ pc' = "execution"]_vars

\* C11 witness: Orchestrate has run on an answer that could not be parsed
\* and the run is about to Execute the fallback plan.
C11_Witness ==
    /\ pc = "execution"
    /\ current_step = "orchestrator_complete"
    /\ plan = _create_fallback_plan(input_operation)

\* The text generator gave no plan: it raised, or its text could not be
\* parsed.
Unparsable(response) == response.kind # "json"

\* The plans _parse_llm_plan builds from the answers it can parse.
ParsedPlans ==
    { _parse_llm_plan(response).plan :
        response \in { r \in LLMResponses : ~Unparsable(r) } }

\* p is the 4-step plan of the request.
IsFourStepPlan(p) ==
    LET requested == IF input_operation = Absent THEN "add"
                     ELSE input_operation
    IN  /\ p.present
        /\ Len(p.steps) = 4
        /\ \A i \in 1..4 : p.steps[i].step_number = i
        /\ << p.steps[1].step_type, p.steps[2].step_type,
              p.steps[3].step_type, p.steps[4].step_type >>
           = << "query_database", "execute_function",
                "verify_result", "format_response" >>
        /\ p.steps[1].keys = RequestKeys
        /\ p.steps[2].operation = requested

\* C12: for every absent or unparsable answer of the text generator the
\* plan is exactly the 4-step plan QueryData, ExecuteOperation,
\* VerifyResult, FormatResponse, numbered 1..4, whose QueryData step holds
\* the request's own keys and whose ExecuteOperation step holds the
\* requested operation, add when the request names none; and that is the
\* plan a run holds whenever its plan was not parsed from an answer.
C12_FallbackPlan ==
    /\ \A response \in LLMResponses :
          Unparsable(response) =>
              IsFourStepPlan(plan_or_fallback(response, input_operation))
    /\ (pc # "orchestrator" /\ plan \notin ParsedPlans) => IsFourStepPlan(plan)

\* C12 witness: Orchestrate ran on a request that names no operation and
\* its plan is the 4-step plan with an addition.
C12_Witness ==
    /\ current_step = "orchestrator_complete"
    /\ input_operation = Absent
    /\ Len(plan.steps) = 4
    /\ plan.steps[2].operation = "add"

\* The latest Execute attempt recorded tr for a lookup that raised.
IsLookupException(tr) ==
    /\ tr.invoked = "query_dynamodb"
    /\ ~tr.success
    /\ tr.error_message = LookupFailedMsg
    /\ tr.output = None

\* An arithmetic tool was called with an operand that is no number, so the
\* call raised.
IsRaisedCall(tr) ==
    tr.invoked \in Functions /\ (~IsNumber(tr.val1) \/ ~IsNumber(tr.val2))

\* Verification has data to check, and an operand of it is no number, so
\* the verification tool raises.
VerifyToolRaises ==
    LET db_result == DbResult(execution_result)
        calc_result == CalcResult(execution_result)
    IN  /\ db_result.found /\ calc_result # None
        /\ db_result.val1 # None /\ db_result.val2 # None
        /\ (~IsNumber(db_result.val1) \/ ~IsNumber(db_result.val2)
            \/ ~IsNumber(calc_result))

\* C13: no exception of a collaborator leaves the stage that made the call.
\* An exception of the text generator yields the fallback plan; every
\* lookup that raised and every arithmetic call that raised is recorded as
\* a ToolCallResult with success = false and the error message, inside a
\* normal ExecutionResult; a verification tool that raised yields a Failed
\* check inside a normal VerificationResult.
C13_ExceptionsStayInside ==
    /\ \A response \in LLMResponses :
          response.kind = "exception" =>
              plan_or_fallback(response, input_operation)
                  = _create_fallback_plan(input_operation)
    /\ pc # "orchestrator" => plan.present
    /\ pc \notin {"orchestrator", "execution"} => execution_result.present
    /\ execution_result.present =>
          LET trs == execution_result.tool_results
          IN  /\ Cardinality({ i \in DOMAIN lookups :
                                  lookups[i].kind = "exception" })
                   = Cardinality({ k \in DOMAIN trs : IsLookupException(trs[k]) })
              /\ \A k \in DOMAIN trs :
                    IsRaisedCall(trs[k]) =>
                        /\ ~trs[k].success
                        /\ trs[k].error_message = ValidationMsg
                        /\ trs[k].output = None
    /\ (VerifiedNow /\ VerifyToolRaises) =>
          /\ Len(verification_result.checks) = 2
          /\ verification_result.checks[1].status = "failed"
          /\ verification_result.overall_status = "failed"

\* C13 witness: an Execute attempt in which a lookup raised has been made
\* and the exception is recorded in its ExecutionResult.
C13_Witness ==
    /\ execution_result.present
    /\ \E i \in DOMAIN lookups : lookups[i].kind = "exception"
    /\ \E k \in DOMAIN execution_result.tool_results :
          IsLookupException(execution_result.tool_results[k])

\* One step of a run keeps the order of the stages: Orchestrate is never
\* entered again, Verify is entered only from an Execute attempt whose
\* result succeeded, the run ends only from Respond, and nothing runs
\* after Respond.
StagesInOrder ==
    /\ pc' = "orchestrator" => pc = "orchestrator"
    /\ pc = "orchestrator" => pc' = "execution" \/ pc' = "response"
    /\ pc' = "verification" =>
          /\ pc = "execution"
          /\ execution_result'.present /\ execution_result'.success
    /\ pc' = "done" => pc = "response"
    /\ pc = "response" => pc' = "done"
    /\ pc # "done"

\* C14: within one run the stages run one at a time in the order Plan,
\* Execute, Verify, Respond: Orchestrate runs first and once, Verify only
\* directly after a successful Execute attempt, Respond runs once and
\* last, and no stage runs after Respond.
C14_StagesInOrder ==
    /\ pc = "orchestrator"
    /\ [][StagesInOrder]_vars
    /\ <>(pc = "done")

\* The tool calls an Execute attempt made, and whether each succeeded.
AttemptedCalls == Len(execution_result.tool_results)

EveryCallSucceeded ==
    \A i \in 1..AttemptedCalls : execution_result.tool_results[i].success

\* C15: the success flag of an execution result is true exactly when at
\* least one tool call was attempted and every attempted call succeeded;
\* an attempt that made no tool call has success false.
C15_SuccessIffAllCallsSucceed ==
    execution_result.present =>
        /\ execution_result.success <=> (AttemptedCalls >= 1 /\ EveryCallSucceeded)
        /\ AttemptedCalls = 0 => ~execution_result.success

\* An Execute attempt of a plan that made no tool call.
C15_Witness ==
    /\ current_step = "execution_complete"
    /\ plan.present /\ Len(plan.steps) >= 1
    /\ execution_result.present
    /\ AttemptedCalls = 0
    /\ ~execution_result.success

EveryCheckPassed ==
    \A i \in DOMAIN verification_result.checks :
        verification_result.checks[i].status = "passed"

\* C16: in every verification result the Verify stage produced, the
\* overall status is Passed exactly when every check is Passed and is
\* Failed otherwise (never Skipped), and the confidence is 1.0 when the
\* status is Passed and 0.0 otherwise.
C16_StatusAndConfidence ==
    verification_result.present =>
        /\ verification_result.overall_status \in {"passed", "failed"}
        /\ verification_result.overall_status = "passed" <=> EveryCheckPassed
        /\ verification_result.confidence_score \in {0, 1}
        /\ verification_result.confidence_score = 1
              <=> verification_result.overall_status = "passed"

\* Verify produced a result with a failed and a passed check.
C16_Witness ==
    /\ current_step = "verification_complete"
    /\ verification_result.present
    /\ \E i, j \in DOMAIN verification_result.checks :
          /\ verification_result.checks[i].status = "failed"
          /\ verification_result.checks[j].status = "passed"
    /\ verification_result.overall_status = "failed"
    /\ verification_result.confidence_score = 0

\* |val1 / val2 - r| <= 1e-9 for numbers with val2 # 0, in integers:
\* |a/b / (c/d) - p/q| = |a*d*q - p*b*c| / (|b*c| * q), compared without
\* the large product.
WithinTolerance(val1, val2, r) ==
    Abs(val1.n * val2.d * r.d - r.n * val1.d * val2.n)
        <= (Abs(val1.d * val2.n) * r.d) \div 1000000000

\* C17: for the operation divide, a lookup of two numbers and a recorded
\* result r, the division check is Passed exactly when val2 # 0 and
\* |val1 / val2 - r| <= 1e-9; for val2 = 0 it is Failed with no expected
\* value.
C17_DivisionWithinTolerance ==
    (VerifiedNow /\ HoldsLookupAndResult("divide")) =>
        LET trs == execution_result.tool_results
            val1 == trs[1].item.val1
            val2 == trs[1].item.val2
            check == verification_result.checks[1]
        IN  /\ Len(verification_result.checks) >= 1
            /\ check.check_name = "divide_correctness"
            /\ val2 # Num(0) =>
                  /\ check.status = "passed" <=> WithinTolerance(val1, val2, trs[2].output)
                  /\ check.status \in {"passed", "failed"}
                  /\ check.expected_value = Rat(val1.n * val2.d, val1.d * val2.n)
            /\ val2 = Num(0) =>
                  /\ check.status = "failed"
                  /\ check.expected_value = None

\* A division whose recorded result is off by exactly the tolerance has
\* been verified and passed.
C17_Witness ==
    /\ VerifiedNow /\ HoldsLookupAndResult("divide")
    /\ execution_result.tool_results[1].item.val2 # Num(0)
    /\ execution_result.tool_results[2].output = Rat(1, 1000000000)
    /\ execution_result.tool_results[1].item.val1 = Num(0)
    /\ verification_result.checks[1].status = "passed"

SomethingMissing ==
    ~plan.present \/ ~execution_result.present \/ ~verification_result.present

ErrorShaped ==
    /\ formatted_response.present
    /\ ~formatted_response.success
    /\ formatted_response.data.keys = {}

\* C18: when the error field is set, Respond produces an error-shaped
\* response (success false, empty data) whose message embeds the error
\* text, whatever else is missing; when no error is set but the plan, the
\* execution result or the verification result is missing, it produces an
\* error-shaped response whose message states the incomplete execution.
C18_ErrorShapedResponse ==
    pc = "done" =>
        /\ error # NoError =>
              /\ ErrorShaped
              /\ formatted_response.message = "Error: " \o error
        /\ (error = NoError /\ SomethingMissing) =>
              /\ ErrorShaped
              /\ formatted_response.message =
                     "Incomplete execution - missing required data"

\* Respond has run on a state with an error set and data missing.
C18_Witness ==
    /\ pc = "done"
    /\ error = "Something went wrong"
    /\ SomethingMissing
    /\ formatted_response.message = "Error: Something went wrong"

\* C19: every response Respond returns, on the success branch and on both
\* error branches, has metadata holding the correlation id, the plan id,
\* the executed-step count, the verification confidence and the check
\* count.
C19_MetadataComplete ==
    (pc = "done" /\ formatted_response.present) =>
        {"request_id", "plan_id", "steps_executed", "verification_confidence",
         "verification_checks"} \subseteq formatted_response.metadata.keys

\* C20: every response built on the non-error branch of Respond has a
\* data map with the six keys val1, val2, result, operation, expression
\* and verification_status, the last one of passed, failed, skipped.
C20_DataComplete ==
    RespondedWithData =>
        /\ formatted_response.data.keys =
              {"val1", "val2", "result", "operation", "expression",
               "verification_status"}
        /\ formatted_response.data.verification_status
              \in {"passed", "failed", "skipped"}

\* The run uses the fallback plan of a requested operation op, and the
\* lookup of the latest Execute attempt returned a record holding two
\* numbers (val2 # 0 for divide).
ScenarioA(looked_up) ==
    /\ input_operation \in Ops
    /\ plan = _create_fallback_plan(input_operation)
    /\ 1 \in DOMAIN looked_up
    /\ looked_up[1].kind = "item"
    /\ looked_up[1].item.found
    /\ IsNumber(looked_up[1].item.val1) /\ IsNumber(looked_up[1].item.val2)
    /\ input_operation = "divide" => looked_up[1].item.val2 # Num(0)

\* val1 op val2 for the four operations
Applied(op, val1, val2) ==
    IF op = "divide" THEN Rat(val1.n * val2.d, val1.d * val2.n)
    ELSE Meaning(op, val1, val2)

\* C21: with the fallback plan of op in add, subtract, multiply, divide
\* and a lookup that returns a record holding val1 and val2 (val2 # 0 for
\* divide), Execute succeeds and goes to Verify without a retry, Verify
\* passes and goes to Respond without a retry, and Respond ends the run
\* with success = true, data.val1 = val1, data.val2 = val2, data.result =
\* val1 op val2, data.operation = op and verification_status "passed".
C21_ScenarioA ==
    [][/\ (pc = "execution" /\ ScenarioA(lookups')) =>
            /\ pc' = "verification" /\ route' = "verification"
            /\ execution_result'.success
            /\ execution_result'.executed_steps = << 1, 2 >>
            /\ execution_result'.final_value =
                  Applied(input_operation, lookups'[1].item.val1,
                          lookups'[1].item.val2)
       /\ (pc = "verification" /\ ScenarioA(lookups)) =>
            /\ pc' = "response" /\ route' = "response"
            /\ verification_result'.overall_status = "passed"
       /\ (pc = "response" /\ ScenarioA(lookups)) =>
            /\ pc' = "done"
            /\ formatted_response'.success
            /\ formatted_response'.data.val1 = lookups[1].item.val1
            /\ formatted_response'.data.val2 = lookups[1].item.val2
            /\ formatted_response'.data.result =
                  Applied(input_operation, lookups[1].item.val1,
                          lookups[1].item.val2)
            /\ formatted_response'.data.operation = input_operation
            /\ formatted_response'.data.verification_status = "passed"
            /\ {"val1", "val2", "result", "operation", "verification_status"}
                  \subseteq formatted_response'.data.keys]_vars

\* A subtraction 0 - 1 ran through the four stages with one Execute
\* attempt and no retry edge.
C21_Witness ==
    /\ pc = "done"
    /\ input_operation = "subtract"
    /\ ScenarioA(lookups)
    /\ lookups[1].item.val1 = Num(0) /\ lookups[1].item.val2 = Num(1)
    /\ exec_retries = 0 /\ verify_retries = 0 /\ odd_attempts
    /\ formatted_response.success
    /\ formatted_response.data.result = Num(-1)

AloneStep(before, after, looked_up) ==
    IF before.pc = "orchestrator"
    THEN \E response \in LLMResponses : after = NodeStep(before, response, << >>)
    ELSE \/ after = NodeStep(before, NoResponse, looked_up)
         \/ \E outcomes \in [LookupSteps(before.plan) -> PeerLookupOutcomes] :
              after = NodeStep(before, NoResponse, outcomes)

C24_StepsAscending ==
    /\ plan.present =>
          /\ \A i \in DOMAIN plan.steps : plan.steps[i].step_number >= 1
          /\ \A i, j \in DOMAIN plan.steps :
                i # j => plan.steps[i].step_number # plan.steps[j].step_number
    /\ execution_result.present =>
          \A i, j \in DOMAIN execution_result.executed_steps :
              i < j => execution_result.executed_steps[i]
                          < execution_result.executed_steps[j]

\* The operation recorded on the last successful arithmetic result of the
\* execution result, Absent when there is none.
RecordedOperation ==
    LET trs == execution_result.tool_results
        hits == { i \in DOMAIN trs : trs[i].tool_name \in Functions /\ trs[i].success }
        last == CHOOSE i \in hits : \A j \in hits : j <= i
    IN  IF hits = {} THEN Absent
        ELSE CASE trs[last].tool_name = "add_values" -> "add"
               [] trs[last].tool_name = "subtract_values" -> "subtract"
               [] trs[last].tool_name = "multiply_values" -> "multiply"
               [] OTHER -> "divide"

\* The operation declared in the parameters of a plan step, Absent when no
\* step declares one.
DeclaredOperation ==
    LET declared == { k \in DOMAIN plan.steps : plan.steps[k].operation # Absent }
    IN  IF declared = {} THEN Absent
        ELSE plan.steps[CHOOSE k \in declared : \A j \in declared : k <= j].operation

PreferredOperation ==
    IF RecordedOperation # Absent THEN RecordedOperation
    ELSE IF DeclaredOperation # Absent THEN DeclaredOperation
    ELSE "add"

\* C25: Verify and Respond take as the operation the one recorded on the
\* successful arithmetic result when there is one, the operation declared
\* in a plan step only when there is none, and add when neither exists.
C25_OperationPreference ==
    /\ (VerifiedNow /\ Len(verification_result.checks) = 2) =>
          verification_result.checks[1].check_name =
              PreferredOperation \o "_correctness"
    /\ RespondedWithData =>
          formatted_response.data.operation = PreferredOperation

\* r is val1 applied to val2 under the arithmetic meaning of op (within
\* 1e-9 for divide); mod is the remainder of integers.
SoundResult(op, val1, val2, r) ==
    CASE op \in {"add", "subtract", "multiply"} -> r = Meaning(op, val1, val2)
      [] op = "divide" -> val2 # Num(0) /\ WithinTolerance(val1, val2, r)
      [] op = "mod" ->
            /\ val1.d = 1 /\ val2.d = 1 /\ val2.n > 0
            /\ r = Num(val1.n % val2.n)
      [] OTHER -> FALSE

\* C26: in every terminal state with FormattedResponse.success = true,
\* data.val1, data.val2 and data.result are numbers and data.result is
\* data.val1 applied to data.val2 under the arithmetic meaning of
\* data.operation, for fallback plans and for parsed plans.
C26_EndToEndSound ==
    (pc = "done" /\ formatted_response.present /\ formatted_response.success) =>
        LET data == formatted_response.data
        IN  /\ IsNumber(data.val1) /\ IsNumber(data.val2) /\ IsNumber(data.result)
            /\ SoundResult(data.operation, data.val1, data.val2, data.result)

\* C27: every verification result Verify produces holds at least one
\* check, and an overall status of Passed implies a Passed correctness
\* check that compared val1 and val2 of the lookup record with the
\* arithmetic result: verification never passes on an empty check list.
C27_NeverPassesUnchecked ==
    VerifiedNow =>
        /\ Len(verification_result.checks) >= 1
        /\ verification_result.overall_status = "passed" =>
              LET check == verification_result.checks[1]
                  db_result == DbResult(execution_result)
              IN  /\ check.status = "passed"
                  /\ check.check_name \notin {"type_consistency", "data_availability"}
                  /\ IsNumber(db_result.val1) /\ IsNumber(db_result.val2)
                  /\ check.actual_value = CalcResult(execution_result)

\* C28: when a run has terminated, the timing map holds an entry for every
\* stage that ran during it: Orchestrate and Respond, which every run goes
\* through, Execute when the context holds an ExecutionResult and Verify
\* when it holds a VerificationResult.
C28_TimingsKept ==
    pc = "done" =>
        /\ "orchestrator" \in node_timings
        /\ "response" \in node_timings
        /\ execution_result.present => "execution" \in node_timings
        /\ verification_result.present => "verification" \in node_timings

\* The lookup steps before step i of the plan whose lookup succeeded in the
\* last Execute attempt.
FoundBefore(i) ==
    { j \in DOMAIN lookups :
        j < i /\ lookups[j].kind = "item" /\ lookups[j].item.found }

Latest(S) == CHOOSE j \in S : \A k \in S : k <= j

\* The plan names an arithmetic tool for the step.
HasTool(step) ==
    \/ OPERATION_TO_TOOL(IF step.operation = Absent THEN "add"
                         ELSE step.operation) # Absent
    \/ OPERATION_TO_TOOL(IF step.function = Absent THEN "add_values"
                         ELSE step.function) # Absent

\* C29: after an Execute attempt, every ExecuteOperation step of the plan
\* that names a tool and has a successful QueryData step before it has run
\* on val1 and val2
\* of the most recent such step (a later QueryData step that found nothing
\* or raised has not changed the cached record), and every arithmetic call
\* recorded ran on the record of a successful QueryData step.
C29_CacheChangesOnSuccessOnly ==
    (current_step = "execution_complete" /\ execution_result.present) =>
        /\ \A i \in DOMAIN plan.steps :
              (/\ plan.steps[i].step_type = "execute_function"
               /\ HasTool(plan.steps[i])
               /\ FoundBefore(i) # {}) =>
                  LET cached == lookups[Latest(FoundBefore(i))].item
                  IN  \E k \in DOMAIN execution_result.tool_results :
                        LET tr == execution_result.tool_results[k]
                        IN  /\ tr.tool_name \in Functions
                            /\ tr.val1 = cached.val1
                            /\ tr.val2 = cached.val2
        /\ \A k \in DOMAIN execution_result.tool_results :
              LET tr == execution_result.tool_results[k]
              IN  tr.tool_name \in Functions =>
                    \E j \in FoundBefore(Len(plan.steps) + 1) :
                        /\ tr.val1 = lookups[j].item.val1
                        /\ tr.val2 = lookups[j].item.val2

\* The steps of the plan of one type.
StepsOfType(type) == { i \in DOMAIN plan.steps : plan.steps[i].step_type = type }

\* The recorded calls that are lookups, and those that are arithmetic.
LookupCalls ==
    { k \in DOMAIN execution_result.tool_results :
        execution_result.tool_results[k].tool_name = "query_dynamodb" }

ArithmeticCalls == DOMAIN execution_result.tool_results \ LookupCalls

\* The ExecuteOperation steps that have a successful lookup before them.
StepsWithRecord ==
    { i \in StepsOfType("execute_function") : FoundBefore(i) # {} }

\* C30: tool_results and executed_steps always have the same length; after
\* an Execute attempt every QueryData step has added one ToolCallResult and
\* no step but QueryData and ExecuteOperation steps has added any, an
\* ExecuteOperation step with no successful lookup before it has added
\* none, and when no ExecuteOperation step had a record final_value is None.
C30_SkippedStepsAddNothing ==
    execution_result.present =>
        /\ Len(execution_result.tool_results) = Len(execution_result.executed_steps)
        /\ current_step = "execution_complete" =>
              /\ Cardinality(LookupCalls) = Cardinality(StepsOfType("query_database"))
              /\ Cardinality(ArithmeticCalls) <= Cardinality(StepsWithRecord)
              /\ StepsWithRecord = {} => execution_result.final_value = None

\* An Execute attempt whose plan has an ExecuteOperation step that names a
\* tool after a lookup that found nothing: the only ToolCallResult is the
\* lookup's.
C30_Witness ==
    /\ current_step = "execution_complete"
    /\ execution_result.present
    /\ Len(plan.steps) = 2
    /\ plan.steps[1].step_type = "query_database"
    /\ plan.steps[2].step_type = "execute_function"
    /\ HasTool(plan.steps[2])
    /\ 1 \in DOMAIN lookups /\ lookups[1].kind = "not_found"
    /\ Len(execution_result.tool_results) = 1
    /\ execution_result.executed_steps = << plan.steps[1].step_number >>

\* The ExecutionResult holds a successful lookup result / a successful
\* arithmetic result.
HasLookupResult ==
    \E k \in DOMAIN execution_result.tool_results :
        LET tr == execution_result.tool_results[k]
        IN  tr.tool_name = "query_dynamodb" /\ tr.success

HasArithmeticResult ==
    \E k \in DOMAIN execution_result.tool_results :
        LET tr == execution_result.tool_results[k]
        IN  tr.tool_name # "query_dynamodb" /\ tr.success

\* C31: when Verify has run on an ExecutionResult with no successful lookup
\* result or no successful arithmetic result, its checks are exactly one
\* data_availability check with status Failed, the overall status is
\* Failed and the confidence is 0.
C31_MissingDataFails ==
    (VerifiedNow /\ (~HasLookupResult \/ ~HasArithmeticResult)) =>
        /\ Len(verification_result.checks) = 1
        /\ verification_result.checks[1].check_name = "data_availability"
        /\ verification_result.checks[1].status = "failed"
        /\ verification_result.overall_status = "failed"
        /\ verification_result.confidence_score = 0

\* Verify has run on a successful arithmetic result with no successful
\* lookup before it.
C31_Witness ==
    /\ VerifiedNow
    /\ HasArithmeticResult /\ ~HasLookupResult
    /\ Len(verification_result.checks) = 1
    /\ verification_result.overall_status = "failed"

\* C32: on every arithmetic ToolCallResult for which Execute invoked a
\* function, tool_name is the name of that function.
C32_ToolNameIsInvoked ==
    \A k \in DOMAIN execution_result.tool_results :
        LET tr == execution_result.tool_results[k]
        IN  (tr.tool_name # "query_dynamodb" /\ tr.invoked # Absent) =>
                tr.tool_name = tr.invoked

\* Respond runs, or has run, on its non-error branch.
RespondsWithResult ==
    /\ pc \in {"response", "done"}
    /\ error = NoError
    /\ execution_result.present /\ verification_result.present /\ plan.present

\* C33: whenever Respond runs on its non-error branch, the verification
\* result in the context is the one Verify computes from the execution
\* result and the plan that are in the context.
C33_VerificationOfLatestAttempt ==
    RespondsWithResult =>
        verification_result =
            VerificationResult(verification_checks(execution_result, plan))

\* Respond has answered on its non-error branch after Verify sent the run
\* back to Execute at least once.
C33_Witness ==
    /\ pc = "done"
    /\ RespondsWithResult
    /\ verify_retries >= 1
    /\ formatted_response.present

\* C34: an Execute attempt on a plan produces the ExecutionResult of running
\* the plan's steps from empty lists, no cached record and no final value
\* with this attempt's lookup outcomes, so it holds at most one ToolCallResult
\* per plan step; and no step but Orchestrate changes the plan.
C34_AttemptStartsEmpty ==
    [][/\ (pc = "execution" /\ plan.present) =>
            /\ execution_result' =
                  ExecutionResult(run_steps(ExecStart, plan.steps, lookups', 1))
            /\ Len(execution_result'.tool_results) <= Len(plan.steps)
            /\ Len(execution_result'.executed_steps) <= Len(plan.steps)
       /\ pc # "orchestrator" => plan' = plan]_vars

\* A second Execute attempt after Verify failed the first: the first attempt
\* left a lookup and an arithmetic result, and the context holds two
\* results, not four.
C34_Witness ==
    /\ current_step = "execution_complete"
    /\ verify_retries >= 1
    /\ execution_result.present
    /\ Len(plan.steps) = 2
    /\ Len(execution_result.tool_results) = 2
    /\ execution_result.executed_steps =
          << plan.steps[1].step_number, plan.steps[2].step_number >>

\* C35: a step that finds or leaves the error field set leaves it set and
\* takes no retry edge, and a run that ends with the error field set ends
\* with success = false.
C35_ErrorSticks ==
    /\ [][(error # NoError \/ error' # NoError) =>
            (error' # NoError /\ ~RetryTransition)]_vars
    /\ [](pc = "done" /\ error # NoError => ~formatted_response.success)

\* A run whose error field a stage set has ended.
C35_Witness ==
    /\ pc = "done"
    /\ error \in {"No plan available for execution",
                  "Missing execution result or plan for verification"}
    /\ formatted_response.present
    /\ ~formatted_response.success

\* The symbol the expression of an operation is written with.
ExpressionSymbol(operation) ==
    CASE operation = "add" -> "+"
      [] operation = "subtract" -> "-"
      [] operation = "multiply" -> "*"
      [] operation = "divide" -> "/"

\* C36: the expression of a response for add, subtract, multiply or divide
\* is made of val1, the symbol of the operation (+ - * /), val2 and the
\* result of the response's data.
C36_ExpressionSymbols ==
    (/\ formatted_response.present
     /\ formatted_response.data.expression.present
     /\ formatted_response.data.operation \in Ops) =>
        LET data == formatted_response.data
        IN  /\ data.expression.symbol = ExpressionSymbol(data.operation)
            /\ data.expression.val1 = data.val1
            /\ data.expression.val2 = data.val2
            /\ data.expression.result = data.result

KnownActions ==
    {"query_database", "execute_operation", "verify_result", "format_response"}

\* What the claim says of the plan parsed from a JSON answer.
ParsedWithDefaults(response) ==
    LET parsed == _parse_llm_plan(response)
    IN  /\ parsed.ok
        /\ parsed.plan.present
        /\ Len(parsed.plan.steps) = Len(response.steps)
        /\ \A i \in DOMAIN response.steps :
              /\ response.steps[i].action \notin KnownActions =>
                    parsed.plan.steps[i].step_type = "execute_function"
              /\ (/\ response.steps[i].action = "execute_operation"
                  /\ response.operation \notin Ops \cup {Absent}) =>
                    /\ parsed.plan.steps[i].operation = response.operation
                    /\ parsed.plan.steps[i].function = "add_values"

\* An ExecuteOperation step of an unknown operation that names the add
\* function.
DefaultsToAdd(step) ==
    /\ step.step_type = "execute_function"
    /\ step.operation \notin Ops \cup {Absent}
    /\ step.function = "add_values"

\* The call recorded went to add_values, and a successful output is
\* val1 + val2.
IsAddition(tr) ==
    /\ tr.tool_name = "add_values"
    /\ tr.invoked \in {"add_values", Absent}
    /\ tr.success => tr.output = add_values(tr.val1, tr.val2)

C38_MissingInputsFail ==
    [][/\ (pc = "execution" /\ ~plan.present) =>
            /\ error' = "No plan available for execution"
            /\ ~execution_result'.present
            /\ current_step' = "execution_failed"
            /\ pc' = "response"
       /\ (pc = "verification" /\ (~plan.present \/ ~execution_result.present)) =>
            /\ error' = "Missing execution result or plan for verification"
            /\ ~verification_result'.present
            /\ current_step' = "verification_failed"
            /\ pc' = "response"]_vars

\* Verify was entered with a plan and no execution result, and Respond is
\* next.
C38_Witness ==
    /\ current_step = "verification_failed"
    /\ plan.present /\ ~execution_result.present
    /\ error = "Missing execution result or plan for verification"
    /\ ~verification_result.present
    /\ pc = "response"

====
